---- MODULE Spec2Model ----
(***************************************************************************)
(* ExcelToJSON: the /api/data request handler get_data of src/app.py.      *)
(* One request is processed at a time, statement group by statement group; *)
(* the remote file the URL serves is part of the state.                    *)
(***************************************************************************)
EXTENDS Integers, Sequences, FiniteSets, TLC

\* ---------------------------------------------------------------- bounds
MaxPage == 3
MaxRpp == 3
MaxRows == 4

\* ------------------------------------------------------ program constants
MAX_ROWS_PER_PAGE == 5000
DefaultPage == 1
DefaultRowsPerPage == 100

\* ------------------------------------------------------- character helpers
Digits == <<"0", "1", "2", "3", "4", "5", "6", "7", "8", "9">>
UpperCase == <<"A", "B", "C", "D", "E", "F", "G", "H", "I", "J", "K", "L", "M",
               "N", "O", "P", "Q", "R", "S", "T", "U", "V", "W", "X", "Y", "Z">>
LowerCase == <<"a", "b", "c", "d", "e", "f", "g", "h", "i", "j", "k", "l", "m",
               "n", "o", "p", "q", "r", "s", "t", "u", "v", "w", "x", "y", "z">>

IsDigit(c) == \E i \in 1..10 : Digits[i] = c
DigitVal(c) == (CHOOSE i \in 1..10 : Digits[i] = c) - 1

Max(S) == CHOOSE m \in S : \A o \in S : o <= m
Min2(a, b) == IF a <= b THEN a ELSE b

\* str.lower() on one character
LowerChar(c) ==
    IF \E i \in 1..26 : UpperCase[i] = c
    THEN LowerCase[CHOOSE i \in 1..26 : UpperCase[i] = c]
    ELSE c
Lower(s) == [i \in 1..Len(s) |-> LowerChar(s[i])]

\* str.strip() restricted to blanks
RECURSIVE LStrip(_)
LStrip(s) == IF s /= <<>> /\ Head(s) = " " THEN LStrip(Tail(s)) ELSE s
RECURSIVE RStrip(_)
RStrip(s) ==
    IF s /= <<>> /\ s[Len(s)] = " " THEN RStrip(SubSeq(s, 1, Len(s) - 1)) ELSE s
Strip(s) == RStrip(LStrip(s))

RECURSIVE DigitsValue(_, _)
DigitsValue(s, acc) ==
    IF s = <<>> THEN acc
    ELSE IF Head(s) = "_" THEN DigitsValue(Tail(s), acc)
    ELSE DigitsValue(Tail(s), acc * 10 + DigitVal(Head(s)))

\* the digit part of an integer literal: digits, single underscores between
WellFormedDigits(d) ==
    /\ d /= <<>>
    /\ \A i \in 1..Len(d) : IsDigit(d[i]) \/ d[i] = "_"
    /\ IsDigit(d[1]) /\ IsDigit(d[Len(d)])
    /\ \A i \in 1..(Len(d) - 1) : ~(d[i] = "_" /\ d[i + 1] = "_")

\* int(str): ok with the value, or ValueError
PyInt(raw) ==
    LET s == Strip(raw)
        signed == s /= <<>> /\ s[1] \in {"-", "+"}
        d == IF signed THEN Tail(s) ELSE s
    IN  IF WellFormedDigits(d)
        THEN [ok |-> TRUE,
              val |-> IF signed /\ s[1] = "-" THEN 0 - DigitsValue(d, 0)
                      ELSE DigitsValue(d, 0)]
        ELSE [ok |-> FALSE, val |-> 0]

\* ------------------------------------------------------------ input sets
RECURSIVE NatStr(_)
NatStr(n) == IF n < 10 THEN <<Digits[n + 1]>>
             ELSE NatStr(n \div 10) \o <<Digits[(n % 10) + 1]>>
IntStr(i) == IF i < 0 THEN <<"-">> \o NatStr(0 - i) ELSE NatStr(i)

Host == <<"h", "t", "t", "p", ":", "/", "/", "h", "/">>
CsvUrl == Host \o <<"a", ".", "c", "s", "v">>
Urls == { <<>>,
          CsvUrl,
          Host \o <<"a", ".", "C", "S", "V">>,
          Host \o <<"a", ".", "x", "l", "s", "x">>,
          Host \o <<"a", ".", "x", "l", "s">>,
          Host \o <<"a", ".", "j", "s", "o", "n">>,
          Host \o <<"a">>,
          <<"a", ".", "c", "s", "v">> }
PageInputs == { IntStr(i) : i \in (0 - 1)..MaxPage } \cup { <<"x">>, <<" ", "2">> }
RppInputs == { IntStr(i) : i \in (0 - 1)..MaxRpp }
             \cup { IntStr(MAX_ROWS_PER_PAGE), IntStr(MAX_ROWS_PER_PAGE + 1000), <<"1", ".", "5">> }
TableSizes == 0..MaxRows \cup {MAX_ROWS_PER_PAGE + 1}
Dates == {"2024-02-29"}

\* request.args: a mapping of a subset of the parameter names to raw strings
ArgSets ==
    { [u |-> u, p |-> p, r |-> r] :
        u \in {{}} \cup {{x} : x \in Urls},
        p \in {{}} \cup {{x} : x \in PageInputs},
        r \in {{}} \cup {{x} : x \in RppInputs} }

\* what the URL serves: the fetch fails, the payload does not parse, or a table
Remotes ==
    { [fetch |-> "error", parse |-> "ok", rows |-> 0],
      [fetch |-> "ok", parse |-> "error", rows |-> 0] }
    \cup { [fetch |-> "ok", parse |-> "ok", rows |-> n] : n \in TableSizes }

\* --------------------------------------------------------- handler state
VARIABLES
    args,           \* request.args of the request being handled
    remote,         \* what the requested URL serves
    pc,             \* position of the handler
    log,            \* logger output of the request
    file_url,       \* request.args.get('url'): {} is None, {s} a string
    page,
    rows_per_page,
    fetched,        \* URLs passed to requests.get by this request
    file_extension,
    df,
    total_rows,
    total_pages,
    start_idx,
    end_idx,
    page_data,
    data,
    responses,      \* responses returned by get_data for this request
    escaped,        \* an exception left get_data
    served          \* index ranges of the pages answered with status 200

vars == <<args, remote, pc, log, file_url, page, rows_per_page, fetched,
          file_extension, df, total_rows, total_pages, start_idx, end_idx,
          page_data, data, responses, escaped, served>>

\* ------------------------------------------------ pieces of get_data
\* request.args.get(key, default)
ArgGet(a, default) == IF a = {} THEN default ELSE CHOOSE x \in a : TRUE

\* int(request.args.get(key, default)) with an integer default
IntArg(a, default) ==
    IF a = {} THEN [ok |-> TRUE, val |-> default] ELSE PyInt(ArgGet(a, <<>>))

\* variant: the ceiling is not applied
ClampNone(rpp) == rpp

\* if rows_per_page > MAX_ROWS_PER_PAGE: rows_per_page = MAX_ROWS_PER_PAGE
Clamp(rpp) == IF rpp > MAX_ROWS_PER_PAGE THEN MAX_ROWS_PER_PAGE ELSE rpp

\* variant: only None counts as missing (file_url is None)
UrlMissingNoneOnly(u) == u = {}

\* not file_url
UrlMissing(u) == u = {} \/ u = {<<>>}

TheUrl(u) == CHOOSE x \in u : TRUE

\* requests.get raises MissingSchema, a RequestException, without a scheme
HasHttpScheme(u) ==
    Len(u) >= 7 /\ SubSeq(u, 1, 7) = <<"h", "t", "t", "p", ":", "/", "/">>

\* file_url.split('.')[-1].lower()
FileExtension(u) ==
    LET dots == { i \in 1..Len(u) : u[i] = "." }
    IN  Lower(IF dots = {} THEN u ELSE SubSeq(u, Max(dots) + 1, Len(u)))

\* variant: everything that is not a spreadsheet is read as CSV
SupportedDefaultCsv(ext) ==
    IF ext \in { <<"x", "l", "s", "x">>, <<"x", "l", "s">> } THEN "excel" ELSE "csv"

Supported(ext) ==
    IF ext = <<"c", "s", "v">> THEN "csv"
    ELSE IF ext \in { <<"x", "l", "s", "x">>, <<"x", "l", "s">> } THEN "excel"
    ELSE "unsupported"

\* pd.read_csv / pd.read_excel of a payload of n data rows; cell i holds i
ReadTable(n) == [i \in 1..n |-> [value |-> i - 1]]

\* math.ceil(a / b) for b /= 0
CeilDiv(a, b) == IF b > 0 THEN 0 - ((0 - a) \div b) ELSE 0 - (a \div (0 - b))

\* variant: page >= total_pages is refused
PageInvalidOffByOne(p, rows, pages) == p < 1 \/ (rows > 0 /\ p >= pages)

\* variant: the upper bound is applied to the empty table too
PageInvalidAnyTable(p, rows, pages) == p < 1 \/ p > pages

\* page < 1 or (total_rows > 0 and page > total_pages)
PageInvalid(p, rows, pages) == p < 1 \/ (rows > 0 /\ p > pages)

InvalidPageMsg(pages) == "Invalid page number. Valid range: 1-" \o ToString(pages)

\* variant: pages counted from 0
StartIdxFromZero(p, rpp) == p * rpp

\* variant: the end is not capped by the table
EndIdxNoMin(start, rpp, rows) == start + rpp

StartIdx(p, rpp) == (p - 1) * rpp
EndIdx(start, rpp, rows) == Min2(start + rpp, rows)

\* a slice bound as Python normalises it for a sequence of length n
SliceBound(i, n) == IF i < 0 THEN (IF i + n < 0 THEN 0 ELSE i + n) ELSE Min2(i, n)

\* df.iloc[start:stop]
Iloc(d, start, stop) ==
    LET lo == SliceBound(start, Len(d))
        hi == SliceBound(stop, Len(d))
    IN  IF lo < hi THEN SubSeq(d, lo + 1, hi) ELSE <<>>

\* json.loads(page_data.to_json(orient='records', date_format='iso'))
\* (a JSON value is its type and its text)
ToJsonRecords(pd) ==
    [i \in 1..Len(pd) |-> [value |-> [type |-> "number", text |-> ToString(pd[i].value)]]]

\* the fallback loop: str(row[col]) for every cell
FallbackRecords(pd) ==
    [i \in 1..Len(pd) |-> [value |-> [type |-> "string", text |-> ToString(pd[i].value)]]]

\* row['pushDate'] = current_date for every row
AddPushDate(rows, d) ==
    [i \in 1..Len(rows) |-> [value |-> rows[i].value, pushDate |-> d]]

ResponseData(rows, p, pages, total, rpp) ==
    [data |-> rows,
     pagination |-> [current_page |-> p, total_pages |-> pages,
                     total_rows |-> total, rows_per_page |-> rpp]]

\* CustomJSONEncoder.default maps every value, last of all through str()
DumpsRaises(rd) == FALSE

Error(status, msg) == [status |-> status, body |-> [error |-> msg]]

\* except ValueError around int(page)
HandlePage(exc) ==
    IF exc = "ValueError"
    THEN [handled |-> TRUE, resp |-> Error(400, "Page parameter must be a valid integer")]
    ELSE [handled |-> FALSE, resp |-> Error(0, "")]

\* except ValueError around int(rows_per_page)
HandleRowsPerPage(exc) ==
    IF exc = "ValueError"
    THEN [handled |-> TRUE,
          resp |-> Error(400, "Rows per page parameter must be a valid integer")]
    ELSE [handled |-> FALSE, resp |-> Error(0, "")]

\* variant: without the final except Exception
HandleMainRequestOnly(exc, msg) ==
    IF exc = "RequestException"
    THEN [handled |-> TRUE, resp |-> Error(400, "Error fetching file: " \o msg)]
    ELSE [handled |-> FALSE, resp |-> Error(0, "")]

\* except RequestException / except Exception of the main try block
HandleMain(exc, msg) ==
    IF exc = "RequestException"
    THEN [handled |-> TRUE, resp |-> Error(400, "Error fetching file: " \o msg)]
    ELSE [handled |-> TRUE, resp |-> Error(500, "Error processing file: " \o msg)]

\* the handler leaves through a return or through an exception
Leave(h, entries) ==
    /\ pc' = "done"
    /\ responses' = IF h.handled THEN Append(responses, h.resp) ELSE responses
    /\ escaped' = ~h.handled
    /\ log' = log \o entries

Return(resp, entries) == Leave([handled |-> TRUE, resp |-> resp], entries)

\* ----------------------------------------------------------------- steps
\* the first request: the locals of get_data are not assigned yet
Init ==
    /\ args \in ArgSets
    /\ remote \in Remotes
    /\ pc = "page"
    /\ log = <<"Received request">>
    /\ file_url = args.u
    /\ page = 0
    /\ rows_per_page = 0
    /\ fetched = <<>>
    /\ file_extension = <<>>
    /\ df = <<>>
    /\ total_rows = 0
    /\ total_pages = 0
    /\ start_idx = 0
    /\ end_idx = 0
    /\ page_data = <<>>
    /\ data = <<>>
    /\ responses = <<>>
    /\ escaped = FALSE
    /\ served = {}

\* get_data is entered with request.args = a: the logging preamble and
\* file_url = request.args.get('url')
Enter(a) ==
    /\ args' = a
    /\ pc' = "page"
    /\ log' = <<"Received request">>
    /\ file_url' = a.u
    /\ page' = 0
    /\ rows_per_page' = 0
    /\ fetched' = <<>>
    /\ file_extension' = <<>>
    /\ df' = <<>>
    /\ total_rows' = 0
    /\ total_pages' = 0
    /\ start_idx' = 0
    /\ end_idx' = 0
    /\ page_data' = <<>>
    /\ data' = <<>>
    /\ responses' = <<>>
    /\ escaped' = FALSE

\* the client browses on: the same URL and page size, another page parameter
Receive ==
    /\ pc = "done"
    /\ \E p \in {{}} \cup {{x} : x \in PageInputs} : Enter([args EXCEPT !.p = p])
    /\ UNCHANGED <<remote, served>>

\* page = int(request.args.get('page', 1))
ParsePage ==
    /\ pc = "page"
    /\ LET r == IntArg(args.p, DefaultPage)
       IN  IF r.ok
           THEN /\ page' = r.val
                /\ pc' = "rows_per_page"
                /\ UNCHANGED <<log, responses, escaped>>
           ELSE /\ Leave(HandlePage("ValueError"), <<"Error">>)
                /\ UNCHANGED page
    /\ UNCHANGED <<args, remote, file_url, rows_per_page, fetched, file_extension,
                   df, total_rows, total_pages, start_idx, end_idx, page_data,
                   data, served>>

\* rows_per_page = int(request.args.get('rows_per_page', 100)), then the ceiling
ParseRowsPerPage ==
    /\ pc = "rows_per_page"
    /\ LET r == IntArg(args.r, DefaultRowsPerPage)
       IN  IF r.ok
           THEN /\ rows_per_page' = Clamp(r.val)
                /\ pc' = "url"
                /\ log' = IF r.val > MAX_ROWS_PER_PAGE
                          THEN Append(log, "Requested rows_per_page exceeds maximum")
                          ELSE log
                /\ UNCHANGED <<responses, escaped>>
           ELSE /\ Leave(HandleRowsPerPage("ValueError"), <<"Error">>)
                /\ UNCHANGED rows_per_page
    /\ UNCHANGED <<args, remote, file_url, page, fetched, file_extension, df,
                   total_rows, total_pages, start_idx, end_idx, page_data, data,
                   served>>

\* if not file_url: return the 400
CheckUrl ==
    /\ pc = "url"
    /\ IF UrlMissing(file_url)
       THEN Return(Error(400, "URL parameter is required"), <<"Error">>)
       ELSE /\ pc' = "fetch"
            /\ UNCHANGED <<log, responses, escaped>>
    /\ UNCHANGED <<args, remote, file_url, page, rows_per_page, fetched,
                   file_extension, df, total_rows, total_pages, start_idx,
                   end_idx, page_data, data, served>>

\* response = requests.get(file_url); response.raise_for_status()
Fetch ==
    /\ pc = "fetch"
    /\ fetched' = Append(fetched, TheUrl(file_url))
    /\ IF HasHttpScheme(TheUrl(file_url)) /\ remote.fetch = "ok"
       THEN /\ pc' = "decode"
            /\ log' = log \o <<"Downloading file", "File downloaded successfully">>
            /\ UNCHANGED <<responses, escaped>>
       ELSE Leave(HandleMain("RequestException", "request failed"),
                  <<"Downloading file", "Error fetching file">>)
    /\ UNCHANGED <<args, remote, file_url, page, rows_per_page, file_extension,
                   df, total_rows, total_pages, start_idx, end_idx, page_data,
                   data, served>>

\* the extension, the parser it selects and df.replace({np.nan: None})
Decode ==
    /\ pc = "decode"
    /\ file_extension' = FileExtension(TheUrl(file_url))
    /\ IF Supported(file_extension') = "unsupported"
       THEN /\ Return(Error(400, "Unsupported file format. Only .xlsx, .xls, and .csv are supported"),
                      <<"Detected file extension", "Error">>)
            /\ UNCHANGED df
       ELSE IF remote.parse = "ok"
       THEN /\ df' = ReadTable(remote.rows)
            /\ pc' = "paginate"
            /\ log' = log \o <<"Detected file extension", "Parsed file",
                               "Replaced NaN values with None">>
            /\ UNCHANGED <<responses, escaped>>
       ELSE /\ Leave(HandleMain("ParserError", "parse failed"),
                      <<"Detected file extension", "Unhandled exception">>)
            /\ UNCHANGED df
    /\ UNCHANGED <<args, remote, file_url, page, rows_per_page, fetched,
                   total_rows, total_pages, start_idx, end_idx, page_data, data,
                   served>>

\* total_rows, total_pages and the page number validation
Paginate ==
    /\ pc = "paginate"
    /\ total_rows' = Len(df)
    /\ IF rows_per_page = 0
       THEN /\ Leave(HandleMain("ZeroDivisionError", "division by zero"),
                     <<"Unhandled exception">>)
            /\ UNCHANGED total_pages
       ELSE /\ total_pages' = CeilDiv(total_rows', rows_per_page)
            /\ IF PageInvalid(page, total_rows', total_pages')
               THEN Return(Error(400, InvalidPageMsg(total_pages')),
                           <<"Pagination", "Error">>)
               ELSE /\ pc' = "slice"
                    /\ log' = Append(log, "Pagination")
                    /\ UNCHANGED <<responses, escaped>>
    /\ UNCHANGED <<args, remote, file_url, page, rows_per_page, fetched,
                   file_extension, df, start_idx, end_idx, page_data, data,
                   served>>

\* start_idx, end_idx, page_data = df.iloc[start_idx:end_idx]
Slice ==
    /\ pc = "slice"
    /\ start_idx' = StartIdx(page, rows_per_page)
    /\ end_idx' = EndIdx(start_idx', rows_per_page, total_rows)
    /\ page_data' = Iloc(df, start_idx', end_idx')
    /\ pc' = "convert"
    /\ log' = Append(log, "Retrieved page")
    /\ UNCHANGED <<args, remote, file_url, page, rows_per_page, fetched,
                   file_extension, df, total_rows, total_pages, data, responses,
                   escaped, served>>

\* to_json, or the fallback loop when it raises, then pushDate on every row
Convert ==
    /\ pc = "convert"
    /\ \E to_json_ok \in BOOLEAN, current_date \in Dates :
         /\ data' = AddPushDate(IF to_json_ok THEN ToJsonRecords(page_data)
                                ELSE FallbackRecords(page_data), current_date)
         /\ log' = log \o <<IF to_json_ok THEN "Successfully converted page data to JSON"
                            ELSE "Primary JSON conversion failed", "Adding pushDate">>
    /\ pc' = "respond"
    /\ UNCHANGED <<args, remote, file_url, page, rows_per_page, fetched,
                   file_extension, df, total_rows, total_pages, start_idx,
                   end_idx, page_data, responses, escaped, served>>

\* response_data, json.dumps and the last-resort handler around it
Respond ==
    /\ pc = "respond"
    /\ LET rd == ResponseData(data, page, total_pages, total_rows, rows_per_page)
       IN  IF DumpsRaises(rd)
           THEN /\ Return([status |-> 500,
                           body |-> [error |-> "Could not serialize response data",
                                     details |-> "serialization failed"]],
                          <<"JSON serialization error">>)
                /\ UNCHANGED served
           ELSE /\ Return([status |-> 200, body |-> rd],
                       <<"Finished processing request successfully">>)
                /\ served' = served \cup {[page |-> page, start |-> start_idx,
                                           end |-> end_idx]}
    /\ UNCHANGED <<args, remote, file_url, page, rows_per_page, fetched,
                   file_extension, df, total_rows, total_pages, start_idx,
                   end_idx, page_data, data>>

Next ==
    \/ Receive
    \/ ParsePage
    \/ ParseRowsPerPage
    \/ CheckUrl
    \/ Fetch
    \/ Decode
    \/ Paginate
    \/ Slice
    \/ Convert
    \/ Respond

Spec == Init /\ [][Next]_vars

\* the handler runs to its return without being preempted for ever
FairSpec == Spec /\ WF_vars(Next)

\* ------------------------------------------------------------ properties
Logged(entry) == \E i \in 1..Len(log) : log[i] = entry
Done == pc = "done"

\* ceil(n / r) as the least k with k * r >= n, for n >= 0 and r >= 1
CeilOf(n, r) == CHOOSE k \in 0..n : k * r >= n /\ (k = 0 \/ (k - 1) * r < n)

PageArg == IntArg(args.p, DefaultPage)
RppArg == IntArg(args.r, DefaultRowsPerPage)
UrlRequired == Error(400, "URL parameter is required")
\* the request has no url parameter, or an empty one
NoUrl == args.u = {} \/ \A x \in args.u : Len(x) = 0

\* C1: requests.get is only called with a non-empty url, page >= 1 and
\* rows_per_page in 1..5000; a request with page < 1 or rows_per_page < 1 ends
\* in a 400 without any fetch.
C1_FetchOnlyValidated ==
    /\ fetched /= <<>> =>
         /\ ~NoUrl
         /\ page >= 1
         /\ rows_per_page \in 1..MAX_ROWS_PER_PAGE
    /\ (Done /\ PageArg.ok /\ RppArg.ok /\ (PageArg.val < 1 \/ RppArg.val < 1)) =>
         /\ fetched = <<>>
         /\ Len(responses) = 1 /\ responses[1].status = 400

\* C2 as stated: a missing or empty url is answered with the 400 "URL parameter
\* is required" whatever page and rows_per_page are.
C2_UrlRequiredAlways ==
    (Done /\ NoUrl) => responses = <<UrlRequired>>

\* C2: a missing or empty url is answered with the 400 "URL parameter is
\* required" when page and rows_per_page are absent or integers; a non-integer
\* page or rows_per_page is reported first, with its own 400.
C2_UrlRequired ==
    (Done /\ NoUrl) =>
        IF ~PageArg.ok
        THEN responses = <<Error(400, "Page parameter must be a valid integer")>>
        ELSE IF ~RppArg.ok
        THEN responses = <<Error(400, "Rows per page parameter must be a valid integer")>>
        ELSE responses = <<UrlRequired>> /\ fetched = <<>>

C2_Witness ==
    /\ Done
    /\ args.u = {<<>>}
    /\ args.p = {IntStr(0)}
    /\ args.r = {IntStr(MAX_ROWS_PER_PAGE + 1000)}
    /\ responses = <<UrlRequired>>

\* the request got as far as the slicing step
Sliced == Logged("Retrieved page")
\* the remote file was fetched and decoded into df
Decoded == Logged("Parsed file")
ValidRpp == rows_per_page \in 1..MAX_ROWS_PER_PAGE

\* C3 as stated: at the slicing step, for rows_per_page in 1..5000,
\* 0 <= start_idx <= end_idx <= total_rows and 0 <= end_idx - start_idx <= rows_per_page.
C3_IndicesOrdered ==
    (Sliced /\ ValidRpp) =>
        /\ 0 <= start_idx /\ start_idx <= end_idx /\ end_idx <= total_rows
        /\ 0 <= end_idx - start_idx /\ end_idx - start_idx <= rows_per_page

\* C3: at the slicing step, for rows_per_page in 1..5000, 0 <= start_idx,
\* end_idx <= total_rows and end_idx - start_idx <= rows_per_page; when
\* total_rows > 0 also start_idx <= end_idx; when total_rows = 0 end_idx is 0
\* and start_idx is (page - 1) * rows_per_page, and the slice holds
\* max(0, end_idx - start_idx) rows in either case.
C3_Indices ==
    (Sliced /\ ValidRpp) =>
        /\ 0 <= start_idx /\ end_idx <= total_rows
        /\ end_idx - start_idx <= rows_per_page
        /\ total_rows > 0 => start_idx <= end_idx
        /\ total_rows = 0 => (end_idx = 0 /\ start_idx = (page - 1) * rows_per_page)
        /\ Len(page_data) = IF end_idx > start_idx THEN end_idx - start_idx ELSE 0

C3_Witness ==
    /\ Sliced /\ ValidRpp
    /\ total_rows = 3 /\ rows_per_page = 2 /\ page = 2
    /\ start_idx = 2 /\ end_idx = 3 /\ Len(page_data) = 1

\* C4: for a decoded table with total_rows > 0, a request with page < 1 or
\* page > total_pages ends in a 400 whose message gives the range
\* 1-total_pages and carries no rows; a page in 1..total_pages is accepted.
C4_PageRange ==
    (Done /\ Decoded /\ Len(df) > 0) =>
        IF rows_per_page >= 1
        THEN LET tp == CeilOf(Len(df), rows_per_page)
             IN  IF page < 1 \/ page > tp
                 THEN responses = <<Error(400, "Invalid page number. Valid range: 1-"
                                               \o ToString(tp))>>
                 ELSE Sliced /\ responses[1].status = 200
        ELSE page < 1 =>
                 /\ Len(responses) = 1
                 /\ responses[1].status = 400
                 /\ "data" \notin DOMAIN responses[1].body

\* C5: for total_rows > 0 and rows_per_page in 1..5000, page = total_pages is
\* answered with the final page: end_idx = total_rows,
\* start_idx = (total_pages - 1) * rows_per_page < total_rows, 1..rows_per_page rows.
C5_FinalPage ==
    (Done /\ Decoded /\ Len(df) > 0 /\ ValidRpp
          /\ page = CeilOf(Len(df), rows_per_page)) =>
        /\ Len(responses) = 1 /\ responses[1].status = 200
        /\ end_idx = Len(df)
        /\ start_idx = (CeilOf(Len(df), rows_per_page) - 1) * rows_per_page
        /\ start_idx < Len(df)
        /\ Len(responses[1].body.data) = end_idx - start_idx
        /\ Len(responses[1].body.data) \in 1..rows_per_page

C5_Witness ==
    /\ Done /\ Decoded /\ Len(df) = 3 /\ rows_per_page = 2 /\ page = 2
    /\ responses[1].status = 200
    /\ Len(responses[1].body.data) = 1

\* C6: an integer rows_per_page above 5000 is never rejected for it; from the
\* parameter parsing on the handler computes with 5000: total_pages,
\* start_idx, end_idx and the rows_per_page of the pagination metadata.
C6_Clamped ==
    (RppArg.ok /\ RppArg.val > MAX_ROWS_PER_PAGE) =>
        /\ \A i \in 1..Len(responses) :
             responses[i] /= Error(400, "Rows per page parameter must be a valid integer")
        /\ (pc \notin {"page", "rows_per_page"} /\ PageArg.ok) =>
             rows_per_page = MAX_ROWS_PER_PAGE
        /\ Logged("Pagination") =>
             total_pages = CeilOf(Len(df), MAX_ROWS_PER_PAGE)
        /\ Sliced =>
             /\ start_idx = (page - 1) * MAX_ROWS_PER_PAGE
             /\ end_idx = Min2(start_idx + MAX_ROWS_PER_PAGE, Len(df))
        /\ (Done /\ Sliced) =>
             /\ responses[1].status = 200
             /\ responses[1].body.pagination.rows_per_page = MAX_ROWS_PER_PAGE
             /\ responses[1].body.pagination.total_pages
                    = CeilOf(Len(df), MAX_ROWS_PER_PAGE)

C6_Witness ==
    /\ Done /\ Sliced
    /\ args.r = {IntStr(MAX_ROWS_PER_PAGE + 1000)}
    /\ Len(df) = MAX_ROWS_PER_PAGE + 1
    /\ page = 2
    /\ responses[1].body.pagination.total_pages = 2
    /\ Len(responses[1].body.data) = 1

\* C7: a decoded table with total_rows = 0 answers every page >= 1, for
\* rows_per_page in 1..5000, with 200, data = [] and the pagination
\* total_pages = 0, total_rows = 0, current_page = the requested page.
C7_EmptyTable ==
    (Done /\ Decoded /\ Len(df) = 0 /\ PageArg.val >= 1 /\ ValidRpp) =>
        responses = <<[status |-> 200,
                       body |-> [data |-> <<>>,
                                 pagination |-> [current_page |-> PageArg.val,
                                                 total_pages |-> 0,
                                                 total_rows |-> 0,
                                                 rows_per_page |-> rows_per_page]]]>>

C7_Witness ==
    /\ Done /\ Decoded /\ Len(df) = 0 /\ ValidRpp
    /\ PageArg.val = MaxPage
    /\ responses[1].status = 200
    /\ responses[1].body.pagination.current_page = MaxPage

KnownExtensions == { <<"c", "s", "v">>, <<"x", "l", "s", "x">>, <<"x", "l", "s">> }
Unsupported400 ==
    Error(400, "Unsupported file format. Only .xlsx, .xls, and .csv are supported")
\* a url is given, page and rows_per_page are absent or integers, and the
\* lowercased text after the last '.' of the url is not csv, xlsx or xls
UnsupportedRequest ==
    /\ ~NoUrl
    /\ PageArg.ok /\ RppArg.ok
    /\ FileExtension(TheUrl(args.u)) \notin KnownExtensions
FetchSucceeds == HasHttpScheme(TheUrl(args.u)) /\ remote.fetch = "ok"

\* C8 as stated: a request with valid parameters and an unsupported extension
\* is answered with the 400 "Unsupported file format ..." whatever the fetch does.
C8_UnsupportedAlways ==
    (Done /\ UnsupportedRequest) => responses = <<Unsupported400>>

\* C8: a request with valid parameters and an unsupported extension is
\* answered with the 400 "Unsupported file format ..." when the fetch
\* succeeds, and with the 400 "Error fetching file: ..." when the fetch fails.
C8_Unsupported ==
    (Done /\ UnsupportedRequest) =>
        IF FetchSucceeds
        THEN responses = <<Unsupported400>>
        ELSE responses = <<Error(400, "Error fetching file: request failed")>>

C8_Witness ==
    /\ Done
    /\ args.u = {Host \o <<"a", ".", "j", "s", "o", "n">>}
    /\ args.p = {IntStr(0)}
    /\ remote.fetch = "ok"
    /\ fetched /= <<>>
    /\ responses = <<Unsupported400>>

\* the body of a successful answer: the rows and the pagination metadata
IsPage(r, rows) ==
    /\ r.status = 200
    /\ DOMAIN r.body = {"data", "pagination"}
    /\ Len(r.body.data) = rows
    /\ DOMAIN r.body.pagination
         = {"current_page", "total_pages", "total_rows", "rows_per_page"}
IsError(r) ==
    /\ r.status \in {400, 500}
    /\ "error" \in DOMAIN r.body
    /\ "data" \notin DOMAIN r.body
OneAnswer == Done => (Len(responses) = 1 /\ ~escaped)

\* C9 as stated: a finished request has exactly one response and no escaped
\* exception: a 200 with exactly end_idx - start_idx rows and the pagination
\* metadata, or a 400 or 500 with an error field and no rows.
C9_OneResponseExact ==
    /\ OneAnswer
    /\ Done => (IsPage(responses[1], end_idx - start_idx) \/ IsError(responses[1]))

\* C9: every request finishes, with exactly one response and no escaped
\* exception: a 200 with max(0, end_idx - start_idx) rows (end_idx - start_idx
\* of them whenever total_rows > 0) and the pagination metadata, or a 400 or
\* 500 with an error field and no rows; nothing is answered before the end.
C9_State ==
    /\ OneAnswer
    /\ ~Done => (responses = <<>> /\ ~escaped)
    /\ Done =>
         \/ /\ IsPage(responses[1], IF end_idx > start_idx THEN end_idx - start_idx ELSE 0)
            /\ total_rows > 0 => Len(responses[1].body.data) = end_idx - start_idx
            /\ Sliced
         \/ IsError(responses[1]) /\ data = <<>>
C9_OneResponse == [](C9_State) /\ []<>(Done)

C9_Witness ==
    /\ Done /\ Sliced
    /\ total_rows = 0 /\ page = 2 /\ rows_per_page = 2
    /\ start_idx = 2 /\ end_idx = 0
    /\ IsPage(responses[1], 0)

\* C10: for a table with total_rows > 0 and rows_per_page in 1..5000 the
\* ranges [start_idx, end_idx) answered for different pages are non-empty,
\* belong to pages 1..total_pages, are pairwise disjoint and contiguous in
\* page order, and once every page was answered they cover each row index
\* 0..total_rows-1 exactly once.
C10_Partition ==
    (remote.rows > 0 /\ served /= {}) =>
        LET n == remote.rows
            r == Clamp(RppArg.val)
            tp == CeilOf(n, r)
        IN  r \in 1..MAX_ROWS_PER_PAGE =>
            /\ \A s \in served : s.page \in 1..tp /\ 0 <= s.start
                                 /\ s.start < s.end /\ s.end <= n
            /\ \A s, t \in served :
                 /\ s.page = t.page => s = t
                 /\ t.page = s.page + 1 => s.end = t.start
                 /\ s.page < t.page => s.end <= t.start
            /\ { s.page : s \in served } = 1..tp =>
                 \A i \in 0..(n - 1) :
                    Cardinality({ s \in served : s.start <= i /\ i < s.end }) = 1

C10_Witness ==
    /\ remote.rows = MaxRows /\ Clamp(RppArg.val) = MaxRows - 1
    /\ { s.page : s \in served } = 1..2
    /\ [page |-> 2, start |-> MaxRows - 1, end |-> MaxRows] \in served

====
